---- MODULE Spec2Model ----
(***************************************************************************)
(* zfs_snapshot: time-bucketed snapshot retention.                         *)
(*                                                                         *)
(* A model of src/src/zfs_snapshot/zfs_snapshot.py (the core) and          *)
(* src/src/zfs_snapshot/__main__.py (the CLI driver).  Strings are         *)
(* sequences of one-character strings, so that parsing, formatting,        *)
(* splitting and sorting are computed the way the interpreter computes     *)
(* them.  zfs(8) is modelled as a pool of volumes and snapshots whose      *)
(* commands may fail.                                                      *)
(***************************************************************************)
EXTENDS Integers, Sequences, FiniteSets, TLC

(***************************************************************************)
(* Characters and strings                                                  *)
(***************************************************************************)

\* Code points of the characters the model uses (str comparison in Python
\* is by code point).
Ord ==
    ("\n" :> 10) @@ (" " :> 32) @@ ("%" :> 37) @@ ("-" :> 45) @@ ("." :> 46) @@
    ("/" :> 47) @@
    ("0" :> 48) @@ ("1" :> 49) @@ ("2" :> 50) @@ ("3" :> 51) @@ ("4" :> 52) @@
    ("5" :> 53) @@ ("6" :> 54) @@ ("7" :> 55) @@ ("8" :> 56) @@ ("9" :> 57) @@
    ("@" :> 64) @@
    ("A" :> 65) @@ ("B" :> 66) @@ ("D" :> 68) @@ ("H" :> 72) @@ ("M" :> 77) @@
    ("P" :> 80) @@ ("Q" :> 81) @@ ("X" :> 88) @@ ("Y" :> 89) @@
    ("a" :> 97) @@ ("b" :> 98) @@ ("d" :> 100) @@ ("h" :> 104) @@
    ("m" :> 109) @@ ("p" :> 112) @@ ("q" :> 113) @@ ("x" :> 120) @@
    ("y" :> 121)

Alphabet == DOMAIN Ord

Chr(n) == CHOOSE c \in Alphabet : Ord[c] = n

IsDigit(c) == Ord[c] >= Ord["0"] /\ Ord[c] <= Ord["9"]

IsUpper(c) == Ord[c] >= Ord["A"] /\ Ord[c] <= Ord["Y"]

\* str.isspace() / the regex class \s, on the model's alphabet.
IsSpace(c) == c \in {" ", "\n"}

\* Case folding as done by a regex compiled with IGNORECASE.
Lower(c) == IF IsUpper(c) THEN Chr(Ord[c] + (Ord["a"] - Ord["A"])) ELSE c

DigitVal(c) == Ord[c] - Ord["0"]

Digit(n) == Chr(Ord["0"] + n)

\* Zero-padded decimal rendering, as "%02d" / "%04d" do.
Pad2(n) == << Digit(n \div 10), Digit(n % 10) >>

Pad4(n) ==
    << Digit((n \div 1000) % 10), Digit((n \div 100) % 10),
       Digit((n \div 10) % 10), Digit(n % 10) >>

Drop(s, k) == SubSeq(s, k + 1, Len(s))

Take(s, k) == SubSeq(s, 1, k)

\* a < b for Python str: lexicographic by code point, a proper prefix first.
RECURSIVE StrLess(_, _)
StrLess(a, b) ==
    IF b = << >> THEN FALSE
    ELSE IF a = << >> THEN TRUE
    ELSE IF Ord[Head(a)] # Ord[Head(b)] THEN Ord[Head(a)] < Ord[Head(b)]
    ELSE StrLess(Tail(a), Tail(b))

\* str.startswith
StartsWith(s, p) == Len(s) >= Len(p) /\ Take(s, Len(p)) = p

\* Insert x into the ascending-sorted sequence s, after its equals.
RECURSIVE Insert(_, _)
Insert(x, s) ==
    IF s = << >> THEN << x >>
    ELSE IF StrLess(x, Head(s)) THEN << x >> \o s
    ELSE << Head(s) >> \o Insert(x, Tail(s))

\* sorted(xs) on a list of str.
RECURSIVE Sorted(_)
Sorted(xs) ==
    IF xs = << >> THEN << >>
    ELSE Insert(xs[Len(xs)], Sorted(Take(xs, Len(xs) - 1)))

Reversed(xs) == [i \in 1..Len(xs) |-> xs[Len(xs) + 1 - i]]

\* sorted with reverse=True forgotten.
SortedForward(xs) == Sorted(xs)

\* sorted(xs, reverse=True) on a list of str (equal strings are the same
\* string, so stability does not show).
SortedReverse(xs) == Reversed(Sorted(xs))

\* The outcome of a call: the exception it raised ("" when it returned) and
\* the value it returned.
Returned(v) == [exc |-> "", val |-> v]

Raised(e, v) == [exc |-> e, val |-> v]

(***************************************************************************)
(* Calendar: datetime.datetime, datetime.timedelta, time.struct_time       *)
(***************************************************************************)

IsLeap(y) == (y % 4 = 0) /\ ((y % 100 # 0) \/ (y % 400 = 0))

DaysInMonth(y, m) ==
    IF m = 2 THEN (IF IsLeap(y) THEN 29 ELSE 28)
    ELSE IF m \in {4, 6, 9, 11} THEN 30 ELSE 31

RECURSIVE DaysBeforeMonth(_, _)
DaysBeforeMonth(y, m) ==
    IF m = 1 THEN 0 ELSE DaysBeforeMonth(y, m - 1) + DaysInMonth(y, m - 1)

DaysBeforeYear(y) ==
    (y - 1) * 365 + ((y - 1) \div 4) - ((y - 1) \div 100) + ((y - 1) \div 400)

DaysInYear(y) == IF IsLeap(y) THEN 366 ELSE 365

\* date.toordinal(): 1 is 0001-01-01.
ToOrdinal(y, m, d) == DaysBeforeYear(y) + DaysBeforeMonth(y, m) + d

\* The year that contains ordinal n.
YearOfOrdinal(n) ==
    LET guess == ((n - 1) \div 366) + 1
        cands == guess .. (guess + 6)
    IN  CHOOSE y \in cands : DaysBeforeYear(y) < n /\ n <= DaysBeforeYear(y + 1)

MonthOfYearDay(y, yd) ==
    CHOOSE m \in 1..12 :
        DaysBeforeMonth(y, m) < yd /\ yd <= DaysBeforeMonth(y, m) + DaysInMonth(y, m)

\* A naive datetime with second resolution.
DateTime(y, mo, d, h, mi, s) ==
    [year |-> y, month |-> mo, day |-> d, hour |-> h, minute |-> mi, second |-> s]

\* Whole hours since 0001-01-01T00:00.
HoursOf(dt) == (ToOrdinal(dt.year, dt.month, dt.day) - 1) * 24 + dt.hour

\* datetime.timedelta(**{unit: n}), in whole hours.
timedelta(unit, n) ==
    CASE unit = "weeks" -> n * 7 * 24
      [] unit = "days"  -> n * 24
      [] unit = "hours" -> n

\* datetime - timedelta: OverflowError when the result is before year 1.
DateTimeMinus(dt, hours) ==
    LET h   == HoursOf(dt) - hours
        n   == (h \div 24) + 1
        y   == YearOfOrdinal(n)
        yd  == n - DaysBeforeYear(y)
        mo  == MonthOfYearDay(y, yd)
    IN  IF h < 0 THEN Raised("OverflowError", dt)
        ELSE Returned(DateTime(y, mo, yd - DaysBeforeMonth(y, mo), h % 24,
                               dt.minute, dt.second))

Weekday(y, m, d) == (ToOrdinal(y, m, d) + 6) % 7

YearDay(y, m, d) == DaysBeforeMonth(y, m) + d

\* time.struct_time as the 9-tuple
\* (year, mon, mday, hour, min, sec, wday, yday, isdst).
StructTime(y, mo, d, h, mi, s, isdst) ==
    << y, mo, d, h, mi, s, Weekday(y, mo, d), YearDay(y, mo, d), isdst >>

\* datetime.timetuple() of a naive datetime: isdst is -1.
timetuple(dt) ==
    StructTime(dt.year, dt.month, dt.day, dt.hour, dt.minute, dt.second, -1)

\* a < b for tuples of integers.
RECURSIVE TupleLess(_, _)
TupleLess(a, b) ==
    IF b = << >> THEN FALSE
    ELSE IF a = << >> THEN TRUE
    ELSE IF Head(a) # Head(b) THEN Head(a) < Head(b)
    ELSE TupleLess(Tail(a), Tail(b))

(***************************************************************************)
(* time.strftime and time.strptime, for the directives the tool uses       *)
(***************************************************************************)

\* The rendering of one strftime directive: zero-padded decimal fields.  A
\* conversion the tool never uses is left as written.
RenderDirective(d, t) ==
    CASE d = "Y" -> Pad4(t[1])
      [] d = "m" -> Pad2(t[2])
      [] d = "d" -> Pad2(t[3])
      [] d = "H" -> Pad2(t[4])
      [] OTHER   -> << "%", d >>

\* time.strftime(fmt, t)
RECURSIVE strftime(_, _)
strftime(fmt, t) ==
    IF fmt = << >> THEN << >>
    ELSE IF Head(fmt) = "%" /\ Len(fmt) >= 2
         THEN RenderDirective(fmt[2], t) \o strftime(Drop(fmt, 2), t)
    ELSE << Head(fmt) >> \o strftime(Tail(fmt), t)

AllDigits(s) == \A i \in 1..Len(s) : IsDigit(s[i])

RECURSIVE ParseInt(_)
ParseInt(s) ==
    IF s = << >> THEN 0
    ELSE IF s[Len(s)] = " " THEN ParseInt(Take(s, Len(s) - 1))
    ELSE ParseInt(Take(s, Len(s) - 1)) * 10 + DigitVal(s[Len(s)])

\* The lengths, in the order the regex alternation tries them, of the
\* prefixes of s that the regex of directive d matches:
\*   Y  \d\d\d\d
\*   m  1[0-2]|0[1-9]|[1-9]
\*   d  3[0-1]|[1-2]\d|0[1-9]|[1-9]| [1-9]
\*   H  2[0-3]|[0-1]\d|\d
DirectiveAlts(d, s) ==
    LET two  == IF Len(s) >= 2 /\ AllDigits(Take(s, 2)) THEN ParseInt(Take(s, 2)) ELSE -1
        one  == IF Len(s) >= 1 /\ IsDigit(s[1]) THEN DigitVal(s[1]) ELSE -1
        sp   == Len(s) >= 2 /\ s[1] = " " /\ IsDigit(s[2]) /\ s[2] # "0"
    IN  CASE d = "Y" -> IF Len(s) >= 4 /\ AllDigits(Take(s, 4)) THEN << 4 >> ELSE << >>
          [] d = "m" -> (IF two >= 1 /\ two <= 12 THEN << 2 >> ELSE << >>)
                        \o (IF one >= 1 THEN << 1 >> ELSE << >>)
          [] d = "d" -> (IF two >= 1 /\ two <= 31 THEN << 2 >> ELSE << >>)
                        \o (IF one >= 1 THEN << 1 >> ELSE << >>)
                        \o (IF sp THEN << 2 >> ELSE << >>)
          [] d = "H" -> (IF two >= 0 /\ two <= 23 THEN << 2 >> ELSE << >>)
                        \o (IF one >= 0 THEN << 1 >> ELSE << >>)

StrptimeDirectives == {"Y", "m", "d", "H"}

\* The number of leading whitespace characters of s.
RECURSIVE SpaceRun(_)
SpaceRun(s) ==
    IF s # << >> /\ IsSpace(Head(s)) THEN 1 + SpaceRun(Tail(s)) ELSE 0

\* Match the data string s against the regex of format fmt, anchored at the
\* start and required to consume all of s; acc holds the groups matched so
\* far.  The result is the groups, with ok telling whether the regex matched.
\* Literals match ignoring case, a whitespace run of the format matches any
\* whitespace run.
NoMatch == [ok |-> FALSE, Y |-> -1, m |-> 1, d |-> 1, H |-> 0]

RECURSIVE ReMatch(_, _, _)
RECURSIVE TryAlts(_, _, _, _, _)
RECURSIVE TrySpaces(_, _, _, _)
ReMatch(fmt, s, acc) ==
    IF fmt = << >> THEN (IF s = << >> THEN acc ELSE NoMatch)
    ELSE IF Head(fmt) = "%" THEN
        IF Len(fmt) < 2 \/ fmt[2] \notin StrptimeDirectives THEN NoMatch
        ELSE TryAlts(DirectiveAlts(fmt[2], s), fmt[2], Drop(fmt, 2), s, acc)
    ELSE IF IsSpace(Head(fmt)) THEN
        TrySpaces(SpaceRun(s), Drop(fmt, SpaceRun(fmt)), s, acc)
    ELSE IF s # << >> /\ Lower(Head(s)) = Lower(Head(fmt))
         THEN ReMatch(Tail(fmt), Tail(s), acc)
    ELSE NoMatch

TryAlts(alts, d, rest, s, acc) ==
    IF alts = << >> THEN NoMatch
    ELSE LET k == Head(alts)
             r == ReMatch(rest, Drop(s, k), [acc EXCEPT ![d] = ParseInt(Take(s, k))])
         IN  IF r.ok THEN r ELSE TryAlts(Tail(alts), d, rest, s, acc)

TrySpaces(k, rest, s, acc) ==
    IF k < 1 THEN NoMatch
    ELSE LET r == ReMatch(rest, Drop(s, k), acc)
         IN  IF r.ok THEN r ELSE TrySpaces(k - 1, rest, s, acc)

\* The empty tuple stands for the ValueError of strptime.
ValueError == << >>

\* time.strptime(data_string, format): the struct_time parsed, or
\* ValueError.  Fields the format lacks default to month 1, day 1, hour 0,
\* minute 0, second 0; a year the format lacks is 1900; isdst is -1.  A date
\* that does not exist is a ValueError.
strptime(data_string, format) ==
    LET found == ReMatch(format, data_string,
                         [ok |-> TRUE, Y |-> -1, m |-> 1, d |-> 1, H |-> 0])
        year  == IF found.Y = -1 THEN 1900 ELSE found.Y
        leap_year_fix == found.Y = -1 /\ found.m = 2 /\ found.d = 29
    IN  IF ~found.ok THEN ValueError
        ELSE IF year < 1 THEN ValueError
        ELSE IF found.d > DaysInMonth(year, found.m) /\ ~leap_year_fix THEN ValueError
        ELSE StructTime(year, found.m, found.d, found.H, 0, 0, -1)

\* str.split(): the maximal runs of non-whitespace characters.
RECURSIVE SplitFrom(_, _)
SplitFrom(s, cur) ==
    IF s = << >> THEN (IF cur = << >> THEN << >> ELSE << cur >>)
    ELSE IF IsSpace(Head(s))
         THEN (IF cur = << >> THEN << >> ELSE << cur >>) \o SplitFrom(Tail(s), << >>)
    ELSE SplitFrom(Tail(s), Append(cur, Head(s)))

Split(s) == SplitFrom(s, << >>)

\* str.splitlines(): the lines of s, without a last empty line.
RECURSIVE SplitLinesFrom(_, _)
SplitLinesFrom(s, cur) ==
    IF s = << >> THEN (IF cur = << >> THEN << >> ELSE << cur >>)
    ELSE IF Head(s) = "\n" THEN << cur >> \o SplitLinesFrom(Tail(s), << >>)
    ELSE SplitLinesFrom(Tail(s), Append(cur, Head(s)))

SplitLines(s) == SplitLinesFrom(s, << >>)

\* What zfs(8) prints for a list of names: one name per line.
RECURSIVE Lines(_)
Lines(names) ==
    IF names = << >> THEN << >> ELSE Head(names) \o << "\n" >> \o Lines(Tail(names))

(***************************************************************************)
(* zfs_snapshot.py                                                         *)
(***************************************************************************)

SNAPSHOT_SEPARATOR == "@"

snapshot_name(vdev, date_format) == vdev \o << SNAPSHOT_SEPARATOR >> \o date_format

\* list_vdevs, given what zfs("list -H -t filesystem,volume -o name") printed.
list_vdevs(output) ==
    LET vdevs == Split(output)
    IN  IF vdevs = << >> THEN Raised("VdevNotFoundError", vdevs) ELSE Returned(vdevs)

\* list_snapshots, given what zfs("list -H -t snapshot [-r] -o name vdev")
\* printed.
list_snapshots(output) == SplitLines(output)

\* is_destroyable_snapshot with "<=" written for "<".
is_destroyable_snapshot_le(vdev, cutoff, date_format, snapshot) ==
    LET snapshot_formatted == snapshot_name(vdev, date_format)
        snapshot_time == strptime(snapshot, snapshot_formatted)
    IN  IF snapshot_time = ValueError THEN FALSE
        ELSE ~TupleLess(cutoff, snapshot_time)

is_destroyable_snapshot(vdev, cutoff, date_format, snapshot) ==
    LET snapshot_formatted == snapshot_name(vdev, date_format)
        snapshot_time == strptime(snapshot, snapshot_formatted)
    IN  IF snapshot_time = ValueError THEN FALSE
        ELSE TupleLess(snapshot_time, cutoff)

(***************************************************************************)
(* __main__.py: the policy table and the pure helpers of main              *)
(***************************************************************************)

DATE_ELEMENT_SEPARATOR == "."

WEEKS_IN_A_MONTH == 4

WEEKS_IN_A_YEAR == 52

\* The list order matters: coarsest first.
SNAPSHOT_CATEGORIES ==
    << [name |-> "years",  lifetime |-> timedelta("weeks", 2 * WEEKS_IN_A_YEAR),
        date_format_qualifier |-> "Y"],
       [name |-> "months", lifetime |-> timedelta("weeks", 1 * WEEKS_IN_A_YEAR),
        date_format_qualifier |-> "m"],
       [name |-> "days",   lifetime |-> timedelta("weeks", 1 * WEEKS_IN_A_MONTH),
        date_format_qualifier |-> "d"],
       [name |-> "hours",  lifetime |-> timedelta("days", 1),
        date_format_qualifier |-> "H"] >>

\* A lifetime override of None is written 0: both are false in "if
\* lifetime_override", and lifetime_type admits no integer below 1.
None == 0

\* compute_cutoff with a "months" override counted in years.
compute_cutoff_months_as_years(now, policy, lifetime_override) ==
    LET policy_name == IF policy.name \in {"years", "months"} THEN "weeks"
                       ELSE policy.name
        override    == IF policy.name \in {"years", "months"}
                           THEN lifetime_override * WEEKS_IN_A_YEAR
                       ELSE lifetime_override
        lifetime    == IF lifetime_override # None
                           THEN timedelta(policy_name, override)
                       ELSE policy.lifetime
    IN  DateTimeMinus(now, lifetime)

\* compute_cutoff(policy, lifetime_override), with the module global NOW as
\* a parameter.
compute_cutoff(now, policy, lifetime_override) ==
    LET policy_name == IF policy.name \in {"years", "months"} THEN "weeks"
                       ELSE policy.name
        override    == IF policy.name = "years"
                           THEN lifetime_override * WEEKS_IN_A_YEAR
                       ELSE IF policy.name = "months"
                           THEN lifetime_override * WEEKS_IN_A_MONTH
                       ELSE lifetime_override
        lifetime    == IF lifetime_override # None
                           THEN timedelta(policy_name, override)
                       ELSE policy.lifetime
    IN  DateTimeMinus(now, lifetime)

\* sep.join(parts)
RECURSIVE Join(_, _)
Join(sep, parts) ==
    IF parts = << >> THEN << >>
    ELSE IF Len(parts) = 1 THEN parts[1]
    ELSE parts[1] \o sep \o Join(sep, Tail(parts))

\* The composite date format with the finest directive first.
DateFormatFinestFirst(snapshot_period) ==
    Join(<< DATE_ELEMENT_SEPARATOR >>,
         [i \in 1..(snapshot_period + 1) |->
             << "%", SNAPSHOT_CATEGORIES[snapshot_period + 2 - i].date_format_qualifier >>])

\* The composite date format main builds for a granularity index.
DateFormat(snapshot_period) ==
    Join(<< DATE_ELEMENT_SEPARATOR >>,
         [i \in 1..(snapshot_period + 1) |->
             << "%", SNAPSHOT_CATEGORIES[i].date_format_qualifier >>])

\* "%s-%s%s" % (prefix, date_format, snapshot_suffix)
SnapshotNameFormat(snapshot_prefix, snapshot_period) ==
    snapshot_prefix \o << "-" >> \o DateFormat(snapshot_period)
        \o << SNAPSHOT_CATEGORIES[snapshot_period + 1].date_format_qualifier >>

(***************************************************************************)
(* A run of main against a pool                                            *)
(***************************************************************************)

VARIABLES
    NOW,                  \* datetime.datetime.now(), taken once at import
    argv,                 \* the --vdev values parse_args has yet to validate
    args,                 \* the argparse.Namespace
    volumes,              \* the pool: dataset names, in the order zfs lists them
    snapshots,            \* the pool: the set of snapshot names
    pc,                   \* where the run is
    exc,                  \* the exception that ended the run, "" if none
    snapshot_name_format, \* main's local
    snapshot_cutoff,      \* main's local, as a struct_time
    todo,                 \* compute_vdevs: the listed vdevs still to query
    target_vdevs,         \* compute_vdevs: the names gathered so far
    vdev_lists,           \* history: what each listing made by compute_vdevs returned
    vdevs,                \* main's local: what compute_vdevs returned
    queue,                \* the rest of sorted(vdevs, reverse=True); its head is vdev
    listing,              \* execute_snapshot_policy: what list_snapshots returned
    expired,              \* the rest of sorted(expired_snapshots, reverse=True)
    calls,                \* history: the zfs commands issued, in order
    snapshots0,           \* history: the snapshots of the pool when the run began
    call,                 \* a pure function applied to bounded inputs ...
    result                \* ... and what it returned

vars ==
    << NOW, argv, args, volumes, snapshots, pc, exc, snapshot_name_format,
       snapshot_cutoff, todo, target_vdevs, vdev_lists, vdevs, queue, listing,
       expired, calls, snapshots0, call, result >>

\* Bounds of the model.
MaxVdevArgs == 2

MaxSnapshots == 2

MaxLifetime == 1

\* Names of datasets: a parent, its child, and one the pool does not hold.
VolP == << "p" >>

VolPX == << "p", "/", "x" >>

VolQ == << "q" >>

VolumeNames == { VolP, VolPX, VolQ }

\* The pools a run meets: one without datasets, one with a parent and its
\* child.
Pools == { << >>, << VolP, VolPX >> }

Prefixes == { << "a" >> }

NowValues == { DateTime(2026, 11, 4, 19, 30, 15) }

\* Instants at which earlier runs took snapshots: two long ago, one an hour
\* before this run.
SnapshotTimes(now) ==
    { DateTime(2013, 5, 6, 7, 30, 15), DateTime(2014, 2, 3, 4, 30, 15),
      DateTimeMinus(now, timedelta("hours", 1)).val }

\* A snapshot somebody took by hand.
ManualSuffix == << "b" >>

\* The snapshots a pool may hold when the run begins: on the parent, one per
\* earlier run; on the child, one of a run long ago.
CandidateSnapshots(vols, fmt, now) ==
    { snapshot_name(v, strftime(fmt, timetuple(t))) :
        v \in vols \cap { VolP }, t \in SnapshotTimes(now) }
    \cup { snapshot_name(v, strftime(fmt, timetuple(DateTime(2013, 5, 6, 7, 30, 15)))) :
             v \in vols \cap { VolPX } }

\* The granularities a run is started with: the coarsest and the finest.
RunPeriods == { 0, Len(SNAPSHOT_CATEGORIES) - 1 }

Range(s) == { s[i] : i \in DOMAIN s }

SeqsUpTo(S, n) == UNION { [1..k -> S] : k \in 0..n }

\* The orders in which zfs may list a set of names.
Perms(S) ==
    { f \in [1..Cardinality(S) -> S] : \A i, j \in DOMAIN f : i # j => f[i] # f[j] }

Init ==
    /\ NOW \in NowValues
    /\ volumes \in Pools
    /\ argv \in SeqsUpTo(VolumeNames, MaxVdevArgs)
    /\ \E lifetime \in None..MaxLifetime, snapshot_period \in RunPeriods,
          snapshot_prefix \in Prefixes, recursive \in BOOLEAN :
            args = [lifetime |-> lifetime, snapshot_period |-> snapshot_period,
                    snapshot_prefix |-> snapshot_prefix, recursive |-> recursive,
                    vdevs |-> << >>]
    /\ snapshots \in
         { S \in SUBSET CandidateSnapshots(Range(volumes),
                   SnapshotNameFormat(args.snapshot_prefix, args.snapshot_period), NOW) :
             Cardinality(S) <= MaxSnapshots }
    /\ snapshots0 = snapshots
    /\ pc = "parse_args"
    /\ exc = ""
    /\ snapshot_name_format = << >>
    /\ snapshot_cutoff = << >>
    /\ todo = << >>
    /\ target_vdevs = << >>
    /\ vdev_lists = << >>
    /\ vdevs = << >>
    /\ queue = << >>
    /\ listing = << >>
    /\ expired = << >>
    /\ calls = << >>
    /\ call = [fn |-> "main"]
    /\ result = [exc |-> ""]

\* The exception caught and dropped: main returns 0.
PropagateSwallowed(e) == pc' = "done" /\ exc' = ""

\* An exception nothing catches: it leaves main, and the run is over.
Propagate(e) == pc' = "raised" /\ exc' = e

\* zfs(arg_str), called by function "by": the command is issued and either
\* succeeds or exits non-zero (subprocess.CalledProcessError).  vdev is the
\* volume main is at, pass the number of its turn in main's loop.
Zfs(by, cmd, arg, ok) ==
    calls' = Append(calls, [by |-> by, cmd |-> cmd, arg |-> arg, ok |-> ok,
                            vdev |-> IF queue = << >> THEN << >> ELSE Head(queue),
                            pass |-> IF vdevs = << >> THEN 0
                                     ELSE Len(vdevs) - Len(queue) + 1])

\* What zfs prints for "list -H -t filesystem,volume -o name".
ZfsListAll == Lines(volumes)

\* What zfs prints for "list -H -o name -r vdev": vdev and its descendants.
ZfsListDescendants(vdev) ==
    LET Under(n) == n = vdev \/ StartsWith(n, vdev \o << "/" >>)
    IN  Lines(SelectSeq(volumes, Under))

\* The snapshots zfs prints for "list -H -t snapshot [-r] -o name vdev".
ZfsSnapshotsOf(vdev, recursive) ==
    { s \in snapshots :
        \/ StartsWith(s, vdev \o << SNAPSHOT_SEPARATOR >>)
        \/ recursive /\ StartsWith(s, vdev \o << "/" >>) }

\* vdev_type, the argparse type of --vdev: one call per --vdev on the command
\* line.  A value that is not a dataset of the pool ends the run with
\* SystemExit (parser.error).
VdevType(ok) ==
    /\ pc = "parse_args"
    /\ argv # << >>
    /\ Zfs("vdev_type", "list_vdevs", << >>, ok)
    /\ LET all_vdevs == list_vdevs(ZfsListAll)
           value == Head(argv)
       IN  IF ~ok THEN Propagate("CalledProcessError") /\ UNCHANGED << argv, args >>
           ELSE IF all_vdevs.exc # "" THEN Propagate(all_vdevs.exc) /\ UNCHANGED << argv, args >>
           ELSE IF value \in Range(all_vdevs.val)
                THEN /\ args' = [args EXCEPT !.vdevs = Append(@, value)]
                     /\ argv' = Tail(argv)
                     /\ UNCHANGED << pc, exc >>
           ELSE Propagate("SystemExit") /\ UNCHANGED << argv, args >>
    /\ UNCHANGED << NOW, volumes, snapshots, snapshot_name_format, snapshot_cutoff,
                    todo, target_vdevs, vdev_lists, vdevs, queue, listing, expired,
                    snapshots0, call, result >>

\* main, from the return of parse_args to the call of compute_vdevs.
MainSetup ==
    /\ pc = "parse_args"
    /\ argv = << >>
    /\ LET snapshot_category == SNAPSHOT_CATEGORIES[args.snapshot_period + 1]
           cutoff == compute_cutoff(NOW, snapshot_category, args.lifetime)
       IN  IF cutoff.exc # ""
           THEN Propagate(cutoff.exc)
                /\ UNCHANGED << snapshot_name_format, snapshot_cutoff, todo >>
           ELSE /\ snapshot_name_format' =
                       SnapshotNameFormat(args.snapshot_prefix, args.snapshot_period)
                /\ snapshot_cutoff' = timetuple(cutoff.val)
                /\ todo' = args.vdevs
                /\ pc' = "compute_vdevs"
                /\ UNCHANGED exc
    /\ UNCHANGED << NOW, argv, args, volumes, snapshots, target_vdevs, vdev_lists,
                    vdevs, queue, listing, expired, calls, snapshots0, call, result >>

\* main looping over vdevs as compute_vdevs returned them.
ReturnVdevsUnsorted(v) ==
    /\ vdevs' = v
    /\ queue' = v
    /\ pc' = "loop"
    /\ UNCHANGED exc

\* compute_vdevs returns: main sorts the result and enters its loop.
ReturnVdevs(v) ==
    /\ vdevs' = v
    /\ queue' = SortedReverse(v)
    /\ pc' = "loop"
    /\ UNCHANGED exc

\* compute_vdevs putting what a query found before what it has.
ComputeVdevsRecursivePrepend(ok) ==
    /\ pc = "compute_vdevs"
    /\ args.recursive /\ args.vdevs # << >>
    /\ Zfs("compute_vdevs", "list_descendants", Head(todo), ok)
    /\ IF ~ok
       THEN Propagate("CalledProcessError")
            /\ UNCHANGED << todo, target_vdevs, vdev_lists, vdevs, queue >>
       ELSE LET found == SplitLines(ZfsListDescendants(Head(todo)))
            IN  /\ target_vdevs' = found \o target_vdevs
                /\ vdev_lists' = Append(vdev_lists, found)
                /\ todo' = Tail(todo)
                /\ IF todo' = << >> THEN ReturnVdevs(target_vdevs')
                   ELSE UNCHANGED << vdevs, queue, pc, exc >>
    /\ UNCHANGED << NOW, argv, args, volumes, snapshots, snapshot_name_format,
                    snapshot_cutoff, listing, expired, snapshots0, call, result >>

\* compute_vdevs, recursive with vdevs given: one pass of its loop.
ComputeVdevsRecursive(ok) ==
    /\ pc = "compute_vdevs"
    /\ args.recursive /\ args.vdevs # << >>
    /\ Zfs("compute_vdevs", "list_descendants", Head(todo), ok)
    /\ IF ~ok
       THEN Propagate("CalledProcessError")
            /\ UNCHANGED << todo, target_vdevs, vdev_lists, vdevs, queue >>
       ELSE LET found == SplitLines(ZfsListDescendants(Head(todo)))
            IN  /\ target_vdevs' = target_vdevs \o found
                /\ vdev_lists' = Append(vdev_lists, found)
                /\ todo' = Tail(todo)
                /\ IF todo' = << >> THEN ReturnVdevs(target_vdevs')
                   ELSE UNCHANGED << vdevs, queue, pc, exc >>
    /\ UNCHANGED << NOW, argv, args, volumes, snapshots, snapshot_name_format,
                    snapshot_cutoff, listing, expired, snapshots0, call, result >>

\* compute_vdevs, not recursive and vdevs given: "return vdevs".
ComputeVdevsGiven ==
    /\ pc = "compute_vdevs"
    /\ ~args.recursive /\ args.vdevs # << >>
    /\ ReturnVdevs(args.vdevs)
    /\ UNCHANGED << NOW, argv, args, volumes, snapshots, snapshot_name_format,
                    snapshot_cutoff, todo, target_vdevs, vdev_lists, listing,
                    expired, calls, snapshots0, call, result >>

\* compute_vdevs, no vdevs given: "return list_vdevs()".
ComputeVdevsAll(ok) ==
    /\ pc = "compute_vdevs"
    /\ args.vdevs = << >>
    /\ Zfs("compute_vdevs", "list_vdevs", << >>, ok)
    /\ LET all_vdevs == list_vdevs(ZfsListAll)
       IN  IF ~ok THEN Propagate("CalledProcessError")
                       /\ UNCHANGED << vdev_lists, vdevs, queue >>
           ELSE IF all_vdevs.exc # "" THEN Propagate(all_vdevs.exc)
                       /\ UNCHANGED << vdev_lists, vdevs, queue >>
           ELSE /\ vdev_lists' = Append(vdev_lists, all_vdevs.val)
                /\ ReturnVdevs(all_vdevs.val)
    /\ UNCHANGED << NOW, argv, args, volumes, snapshots, snapshot_name_format,
                    snapshot_cutoff, todo, target_vdevs, listing, expired,
                    snapshots0, call, result >>

\* execute_snapshot_policy for the next vdev of main's loop, up to the sort
\* of the expired snapshots.  zfs lists the snapshots in any order.
ListSnapshots(ok) ==
    /\ pc = "loop"
    /\ queue # << >>
    /\ Zfs("execute_snapshot_policy", "list_snapshots", Head(queue), ok)
    /\ IF ~ok
       THEN Propagate("CalledProcessError") /\ UNCHANGED << listing, expired >>
       ELSE \E order \in Perms(ZfsSnapshotsOf(Head(queue), args.recursive)) :
            LET vdev == Head(queue)
                found == list_snapshots(Lines(order))
                Destroyable(snapshot) ==
                    is_destroyable_snapshot(vdev, snapshot_cutoff,
                                            snapshot_name_format, snapshot)
                expired_snapshots == SelectSeq(found, Destroyable)
            IN  /\ listing' = found
                /\ expired' = SortedReverse(expired_snapshots)
                /\ pc' = "destroy"
                /\ UNCHANGED exc
    /\ UNCHANGED << NOW, argv, args, volumes, snapshots, snapshot_name_format,
                    snapshot_cutoff, todo, target_vdevs, vdev_lists, vdevs, queue,
                    snapshots0, call, result >>

\* execute_snapshot_policy: one pass of the loop that destroys.
DestroySnapshot(ok) ==
    /\ pc = "destroy"
    /\ expired # << >>
    /\ Zfs("execute_snapshot_policy", "destroy", Head(expired), ok)
    /\ IF ~ok
       THEN Propagate("CalledProcessError") /\ UNCHANGED << snapshots, expired >>
       ELSE /\ snapshots' = snapshots \ { Head(expired) }
            /\ expired' = Tail(expired)
            /\ UNCHANGED << pc, exc >>
    /\ UNCHANGED << NOW, argv, args, volumes, snapshot_name_format, snapshot_cutoff,
                    todo, target_vdevs, vdev_lists, vdevs, queue, listing,
                    snapshots0, call, result >>

\* execute_snapshot_policy returning early, without a create, when the vdev
\* has no snapshot.
CreateSnapshotUnlessEmpty(ok) ==
    /\ pc = "destroy"
    /\ expired = << >>
    /\ LET snap_name == snapshot_name(Head(queue),
                            strftime(snapshot_name_format, timetuple(NOW)))
       IN  IF listing = << >>
           THEN /\ ok
                /\ queue' = Tail(queue)
                /\ pc' = "loop"
                /\ UNCHANGED << calls, snapshots, exc >>
           ELSE /\ Zfs("execute_snapshot_policy", "create", snap_name, ok)
                /\ IF ~ok
                   THEN Propagate("CalledProcessError") /\ UNCHANGED << snapshots, queue >>
                   ELSE /\ snapshots' = snapshots \cup { snap_name }
                        /\ queue' = Tail(queue)
                        /\ pc' = "loop"
                        /\ UNCHANGED exc
    /\ UNCHANGED << NOW, argv, args, volumes, snapshot_name_format, snapshot_cutoff,
                    todo, target_vdevs, vdev_lists, vdevs, listing, expired,
                    snapshots0, call, result >>

\* execute_snapshot_policy: the create that ends it; main goes on to the next
\* vdev.
CreateSnapshot(ok) ==
    /\ pc = "destroy"
    /\ expired = << >>
    /\ LET snap_name == snapshot_name(Head(queue),
                            strftime(snapshot_name_format, timetuple(NOW)))
       IN  /\ Zfs("execute_snapshot_policy", "create", snap_name, ok)
           /\ IF ~ok
              THEN Propagate("CalledProcessError") /\ UNCHANGED << snapshots, queue >>
              ELSE /\ snapshots' = snapshots \cup { snap_name }
                   /\ queue' = Tail(queue)
                   /\ pc' = "loop"
                   /\ UNCHANGED exc
    /\ UNCHANGED << NOW, argv, args, volumes, snapshot_name_format, snapshot_cutoff,
                    todo, target_vdevs, vdev_lists, vdevs, listing, expired,
                    snapshots0, call, result >>

\* main: the loop is over, "return 0".
Return ==
    /\ pc = "loop"
    /\ queue = << >>
    /\ pc' = "done"
    /\ UNCHANGED << NOW, argv, args, volumes, snapshots, exc, snapshot_name_format,
                    snapshot_cutoff, todo, target_vdevs, vdev_lists, vdevs, queue,
                    listing, expired, calls, snapshots0, call, result >>

Next ==
    \/ \E ok \in BOOLEAN : VdevType(ok)
    \/ MainSetup
    \/ \E ok \in BOOLEAN : ComputeVdevsRecursive(ok)
    \/ ComputeVdevsGiven
    \/ \E ok \in BOOLEAN : ComputeVdevsAll(ok)
    \/ \E ok \in BOOLEAN : ListSnapshots(ok)
    \/ \E ok \in BOOLEAN : DestroySnapshot(ok)
    \/ \E ok \in BOOLEAN : CreateSnapshot(ok)
    \/ Return

Spec == Init /\ [][Next]_vars

(***************************************************************************)
(* The pure functions, applied to bounded inputs                           *)
(***************************************************************************)

runvars ==
    << NOW, argv, args, volumes, snapshots, pc, exc, snapshot_name_format,
       snapshot_cutoff, todo, target_vdevs, vdev_lists, vdevs, queue, listing,
       expired, calls, snapshots0 >>

\* No run of main: the state holds only the inputs of a function.
NoRun ==
    /\ NOW \in NowValues
    /\ argv = << >>
    /\ args = [lifetime |-> None, snapshot_period |-> 0,
               snapshot_prefix |-> << "a" >>, recursive |-> FALSE, vdevs |-> << >>]
    /\ volumes = << >>
    /\ snapshots = { }
    /\ snapshots0 = { }
    /\ pc = "function"
    /\ exc = ""
    /\ snapshot_name_format = << >>
    /\ snapshot_cutoff = << >>
    /\ todo = << >>
    /\ target_vdevs = << >>
    /\ vdev_lists = << >>
    /\ vdevs = << >>
    /\ queue = << >>
    /\ listing = << >>
    /\ expired = << >>
    /\ calls = << >>

Pending == [exc |-> "pending"]

Periods == 0..(Len(SNAPSHOT_CATEGORIES) - 1)

\* -- is_destroyable_snapshot ------------------------------------------------

\* The instants snapshots are named after.
ClassifyTimes ==
    { DateTime(2019, 12, 31, 23, 0, 0), DateTime(2020, 1, 1, 0, 0, 0),
      DateTime(2020, 2, 3, 4, 30, 15) }

ClassifyCutoffs ==
    { timetuple(DateTime(2019, 12, 31, 23, 0, 0)),
      timetuple(DateTime(2020, 1, 1, 0, 0, 0)),
      timetuple(DateTime(2020, 1, 1, 0, 0, 1)),
      timetuple(DateTime(2026, 11, 4, 19, 30, 15)) }

Upper(c) ==
    IF \E u \in Alphabet : IsUpper(u) /\ Lower(u) = c /\ u # c
    THEN CHOOSE u \in Alphabet : IsUpper(u) /\ Lower(u) = c /\ u # c
    ELSE c

UpperStr(s) == [i \in DOMAIN s |-> Upper(s[i])]

RemoveAt(s, i) == Take(s, i - 1) \o Drop(s, i)

\* s with the zero that pads one of its fields removed.
Unpadded(s) ==
    { RemoveAt(s, i) : i \in { j \in 2..(Len(s) - 1) :
                                 s[j] = "0" /\ s[j - 1] = "." /\ IsDigit(s[j + 1]) } }

\* The names a listing may hold next to the tool's own: renderings of the
\* format on the dataset and on the other dataset, the same written in upper
\* case, without padding, with a character more or less, and a free-form
\* name.
ClassifyNames(fmt) ==
    LET exact == { snapshot_name(v, strftime(fmt, timetuple(t))) :
                     v \in { VolP, VolPX }, t \in ClassifyTimes }
    IN  exact
        \cup { UpperStr(e) : e \in exact }
        \cup UNION { Unpadded(e) : e \in exact }
        \cup { e \o << "x" >> : e \in exact }
        \cup { Take(e, Len(e) - 1) : e \in exact }
        \cup { snapshot_name(v, ManualSuffix) : v \in { VolP, VolPX } }

InitClassify ==
    /\ NoRun
    /\ \E vdev \in { VolP, VolPX }, cutoff \in ClassifyCutoffs,
          snapshot_prefix \in Prefixes, snapshot_period \in Periods :
         LET date_format == SnapshotNameFormat(snapshot_prefix, snapshot_period)
         IN  \E snapshot \in ClassifyNames(date_format) :
               call = [fn |-> "is_destroyable_snapshot", vdev |-> vdev,
                       cutoff |-> cutoff, date_format |-> date_format,
                       snapshot |-> snapshot]
    /\ result = Pending

Classify ==
    /\ call.fn = "is_destroyable_snapshot"
    /\ result = Pending
    /\ result' = Returned(is_destroyable_snapshot(call.vdev, call.cutoff,
                                                  call.date_format, call.snapshot))
    /\ UNCHANGED << runvars, call >>

SpecClassify == InitClassify /\ [][Classify]_vars

\* -- compute_cutoff ---------------------------------------------------------

MaxOverride == 3

\* A lifetime no pool will live to see.
HugeLifetime == 2100

CutoffNows ==
    { DateTime(2026, 11, 4, 19, 30, 15), DateTime(2024, 12, 31, 23, 59, 59),
      DateTime(2024, 3, 1, 0, 0, 0) }

InitCutoff ==
    /\ NoRun
    /\ \E now \in CutoffNows, snapshot_period \in Periods,
          lifetime_override \in (None..MaxOverride) \cup { HugeLifetime } :
         call = [fn |-> "compute_cutoff", now |-> now,
                 snapshot_period |-> snapshot_period,
                 lifetime_override |-> lifetime_override]
    /\ result = Pending

ComputeCutoff ==
    /\ call.fn = "compute_cutoff"
    /\ result = Pending
    /\ result' = compute_cutoff(call.now, SNAPSHOT_CATEGORIES[call.snapshot_period + 1],
                                call.lifetime_override)
    /\ UNCHANGED << runvars, call >>

SpecCutoff == InitCutoff /\ [][ComputeCutoff]_vars

\* -- list_vdevs -------------------------------------------------------------

MaxListed == 3

\* A dataset whose name has a space in it.
VolSpaced == << "p", " ", "q" >>

VolX == << "x" >>

ListedNames == { VolP, VolPX, VolQ, VolX, VolSpaced }

InitListVdevs ==
    /\ NoRun
    /\ \E names \in SeqsUpTo(ListedNames, MaxListed) :
         /\ \A i, j \in DOMAIN names : i # j => names[i] # names[j]
         /\ call = [fn |-> "list_vdevs", names |-> names]
    /\ result = Pending

ListVdevs ==
    /\ call.fn = "list_vdevs"
    /\ result = Pending
    /\ result' = list_vdevs(Lines(call.names))
    /\ UNCHANGED << runvars, call >>

SpecListVdevs == InitListVdevs /\ [][ListVdevs]_vars

\* -- main: the formats ------------------------------------------------------

MaxPrefix == 3

\* The values of --snapshot-prefix: the non-empty strings of a and b.
FormatPrefixes == SeqsUpTo({ "a", "b" }, MaxPrefix) \ { << >> }

InitFormat ==
    /\ NoRun
    /\ \E snapshot_period \in Periods, snapshot_prefix \in FormatPrefixes :
         call = [fn |-> "main_formats", snapshot_period |-> snapshot_period,
                 snapshot_prefix |-> snapshot_prefix]
    /\ result = Pending

\* main, from date_format to snapshot_name_format.
MainFormats ==
    /\ call.fn = "main_formats"
    /\ result = Pending
    /\ result' = Returned(
           [date_format |-> DateFormat(call.snapshot_period),
            snapshot_name_format |->
                SnapshotNameFormat(call.snapshot_prefix, call.snapshot_period)])
    /\ UNCHANGED << runvars, call >>

SpecFormat == InitFormat /\ [][MainFormats]_vars

\* -- execute_snapshot_policy: the destroy loop -------------------------------

MaxExpired == 3

\* Snapshots of a dataset and of its child, none named by a date.
ExpiredNames ==
    { snapshot_name(v, d) : v \in { VolP, VolPX }, d \in { << "a" >>, << "b" >> } }

\* execute_snapshot_policy on p, at the sort of expired_snapshots, for every
\* list of distinct names the comprehension may have left there.
InitDestroyExpired ==
    /\ NOW \in NowValues
    /\ argv = << >>
    /\ args = [lifetime |-> None, snapshot_period |-> 0,
               snapshot_prefix |-> << "a" >>, recursive |-> TRUE,
               vdevs |-> << VolP >>]
    /\ volumes = << VolP, VolPX >>
    /\ \E expired_snapshots \in SeqsUpTo(ExpiredNames, MaxExpired) :
         /\ \A i, j \in DOMAIN expired_snapshots :
               i # j => expired_snapshots[i] # expired_snapshots[j]
         /\ call = [fn |-> "execute_snapshot_policy",
                    expired_snapshots |-> expired_snapshots]
         /\ listing = expired_snapshots
         /\ snapshots = Range(expired_snapshots)
    /\ snapshots0 = snapshots
    /\ pc = "classified"
    /\ exc = ""
    /\ snapshot_name_format = SnapshotNameFormat(args.snapshot_prefix, args.snapshot_period)
    /\ snapshot_cutoff = timetuple(NOW)
    /\ todo = << >>
    /\ target_vdevs = << >>
    /\ vdev_lists = << >>
    /\ vdevs = << VolP >>
    /\ queue = << VolP >>
    /\ expired = << >>
    /\ calls = << >>
    /\ result = Pending

\* sorted(expired_snapshots, reverse=True), the iterable of the destroy loop.
SortExpired ==
    /\ pc = "classified"
    /\ expired' = SortedReverse(call.expired_snapshots)
    /\ pc' = "destroy"
    /\ UNCHANGED << NOW, argv, args, volumes, snapshots, exc, snapshot_name_format,
                    snapshot_cutoff, todo, target_vdevs, vdev_lists, vdevs, queue,
                    listing, calls, snapshots0, call, result >>

NextDestroyExpired ==
    \/ SortExpired
    \/ \E ok \in BOOLEAN : DestroySnapshot(ok)

SpecDestroyExpired == InitDestroyExpired /\ [][NextDestroyExpired]_vars

\* -- a later run over a snapshot an earlier run created ---------------------

\* The instants of the later run: early in a year, late in a month, and in
\* the first days of a month.
RetentionNows ==
    { DateTime(2026, 1, 2, 10, 0, 0), DateTime(2026, 10, 30, 19, 30, 15),
      DateTime(2026, 11, 4, 19, 30, 15) }

\* The instants of the earlier run: years before, at the end of the year
\* before last, an hour before the later run, and the later run itself.
CreatedTimes(now) ==
    { DateTime(2013, 5, 6, 7, 30, 15), DateTime(2024, 12, 31, 23, 0, 0),
      DateTimeMinus(now, timedelta("hours", 1)).val, now }

\* A run of main on a pool of one dataset, p, that holds the snapshot a run
\* with the same period, prefix and lifetime created at call.created.
InitRetention ==
    /\ NOW \in RetentionNows
    /\ volumes = << VolP >>
    /\ argv \in { << >>, << VolP >> }
    /\ \E lifetime \in None..MaxLifetime, snapshot_period \in Periods,
          snapshot_prefix \in Prefixes, recursive \in BOOLEAN :
            args = [lifetime |-> lifetime, snapshot_period |-> snapshot_period,
                    snapshot_prefix |-> snapshot_prefix, recursive |-> recursive,
                    vdevs |-> << >>]
    /\ \E created \in CreatedTimes(NOW) :
         /\ call = [fn |-> "main", created |-> created]
         /\ snapshots =
              { snapshot_name(VolP,
                    strftime(SnapshotNameFormat(args.snapshot_prefix,
                                                args.snapshot_period),
                             timetuple(created))) }
    /\ snapshots0 = snapshots
    /\ pc = "parse_args"
    /\ exc = ""
    /\ snapshot_name_format = << >>
    /\ snapshot_cutoff = << >>
    /\ todo = << >>
    /\ target_vdevs = << >>
    /\ vdev_lists = << >>
    /\ vdevs = << >>
    /\ queue = << >>
    /\ listing = << >>
    /\ expired = << >>
    /\ calls = << >>
    /\ result = [exc |-> ""]

SpecRetention == InitRetention /\ [][Next]_vars

(***************************************************************************)
(* Properties                                                              *)
(***************************************************************************)

Classified == call.fn = "is_destroyable_snapshot" /\ result # Pending

\* name is exactly vdev@ followed by a rendering of the format.
IsRendering(vdev, date_format, name) ==
    \E t \in ClassifyTimes :
        name = snapshot_name(vdev, strftime(date_format, timetuple(t)))

\* C1: a snapshot name that is not exactly vdev@ followed by a rendering of
\* the date format is never classified as expired, whatever the cutoff.
C1_OnlyRenderingsExpire ==
    Classified /\ ~IsRendering(call.vdev, call.date_format, call.snapshot)
        => result.val = FALSE

\* The day and the second of the day of a struct_time.
DayOf(t) == ToOrdinal(t[1], t[2], t[3])

SecondOf(t) == (t[4] * 60 + t[5]) * 60 + t[6]

\* The instant of struct_time a is strictly earlier than that of b.
Earlier(a, b) ==
    DayOf(a) < DayOf(b) \/ (DayOf(a) = DayOf(b) /\ SecondOf(a) < SecondOf(b))

ParsedTime == strptime(call.snapshot, snapshot_name(call.vdev, call.date_format))

CutoffComputed == call.fn = "compute_cutoff" /\ result # Pending

\* The lifetime of the claim, in hours: the default of the granularity, or
\* the override in years of 52 weeks, months of 4 weeks, days or hours.
ClaimedLifetime ==
    LET n    == call.lifetime_override
        name == SNAPSHOT_CATEGORIES[call.snapshot_period + 1].name
    IN  IF n = None
        THEN CASE name = "years"  -> 104 * 7 * 24
               [] name = "months" -> 52 * 7 * 24
               [] name = "days"   -> 4 * 7 * 24
               [] name = "hours"  -> 24
        ELSE CASE name = "years"  -> n * 52 * 7 * 24
               [] name = "months" -> n * 4 * 7 * 24
               [] name = "days"   -> n * 24
               [] name = "hours"  -> n

\* compute_cutoff returned now minus the claimed lifetime, an instant before
\* now.
ReturnedNowMinusLifetime ==
    /\ result.exc = ""
    /\ HoursOf(result.val) = HoursOf(call.now) - ClaimedLifetime
    /\ result.val.minute = call.now.minute
    /\ result.val.second = call.now.second
    /\ Earlier(timetuple(result.val), timetuple(call.now))

VdevsListed == call.fn = "list_vdevs" /\ result # Pending

\* C5: list_vdevs raises VdevNotFoundError when zfs lists no dataset, and
\* otherwise returns exactly the names zfs listed, in the same order.
C5_ListVdevsReturnsTheNames ==
    VdevsListed =>
        IF call.names = << >>
        THEN result.exc = "VdevNotFoundError"
        ELSE result.exc = "" /\ result.val = call.names

\* The calls made during turn k of main's loop.
PassCalls(k) ==
    LET InPass(c) == c.pass = k IN SelectSeq(calls, InPass)

\* The destroys of turn k.
PassDestroys(k) ==
    LET IsDestroy(c) == c.pass = k /\ c.cmd = "destroy" IN SelectSeq(calls, IsDestroy)

\* The number of turns of main's loop that are over.
Completed == IF vdevs = << >> THEN 0 ELSE Len(vdevs) - Len(queue)

\* The name execute_snapshot_policy creates on vdev in this run.
CreatedName(vdev) ==
    snapshot_name(vdev, strftime(snapshot_name_format, timetuple(NOW)))

\* C2: for one volume the calls are a list of its snapshots, then destroys,
\* then the create; nothing follows the create, and every volume whose turn
\* is over got its create, whatever the listing held.
C2_ListThenDestroysThenCreate ==
    \A k \in 1..Len(vdevs) :
        LET c == PassCalls(k)
        IN  /\ c # << >> =>
                /\ c[1].cmd = "list_snapshots"
                /\ c[1].arg = c[1].vdev
            /\ \A i \in 2..Len(c) :
                /\ c[i].cmd \in { "destroy", "create" }
                /\ c[i - 1].cmd # "create"
                /\ c[i].vdev = c[1].vdev
            /\ k <= Completed =>
                /\ c # << >>
                /\ c[Len(c)].cmd = "create"
                /\ c[Len(c)].ok
                /\ c[Len(c)].arg = CreatedName(c[1].vdev)

\* C2, witness: a run is over in which one volume had nothing listed and got
\* only its create, and another had a destroy before its create.
C2_Witness ==
    /\ pc = "done"
    /\ \E k \in 1..Len(vdevs) : Len(PassCalls(k)) = 2 /\ listing = << >>
    /\ \E k \in 1..Len(vdevs) : Len(PassDestroys(k)) >= 1

\* The destroys and creates that volume v receives.
Received(v) ==
    LET ToV(c) == /\ c.cmd \in { "destroy", "create" }
                  /\ StartsWith(c.arg, v \o << SNAPSHOT_SEPARATOR >>)
    IN  SelectSeq(calls, ToV)

\* C3: in a run whose every call succeeded, every target volume receives
\* destroys followed by exactly one create.
C3_DestroysThenOneCreate ==
    pc = "done" =>
        \A v \in Range(vdevs) :
            LET c == Received(v)
            IN  /\ c # << >>
                /\ c[Len(c)].cmd = "create"
                /\ \A i \in 1..(Len(c) - 1) : c[i].cmd = "destroy"

\* The snapshots of the pool after the calls cs that succeeded.
RECURSIVE Replay(_, _)
Replay(cs, S) ==
    IF cs = << >> THEN S
    ELSE LET c == Head(cs)
         IN  Replay(Tail(cs),
                    IF c.ok /\ c.cmd = "destroy" THEN S \ { c.arg }
                    ELSE IF c.ok /\ c.cmd = "create" THEN S \cup { c.arg }
                    ELSE S)

\* C4: a call that fails is the last call of the run, the run ends with the
\* error of that call, and what the run destroyed and created before stays
\* destroyed and created.
C4_FailureEndsTheRun ==
    /\ \A i \in DOMAIN calls :
         ~calls[i].ok =>
            /\ i = Len(calls)
            /\ pc = "raised"
            /\ exc = "CalledProcessError"
    /\ snapshots = Replay(calls, snapshots0)

\* C4, witness: a destroy succeeded, a later call failed, and volumes remain
\* that the run never got to.
C4_Witness ==
    /\ pc = "raised"
    /\ exc = "CalledProcessError"
    /\ Len(queue) >= 2
    /\ \E i \in DOMAIN calls : calls[i].cmd = "destroy" /\ calls[i].ok
    /\ ~calls[Len(calls)].ok
    /\ snapshots # snapshots0

\* The snapshots of a listing that the classifier calls expired for vdev.
ExpiredOf(vdev, found) ==
    { s \in Range(found) :
        is_destroyable_snapshot(vdev, snapshot_cutoff, snapshot_name_format, s) }

\* The turn the last listing belongs to.
ListedPass ==
    LET IsList(c) == c.cmd = "list_snapshots" /\ c.ok
    IN  Len(SelectSeq(calls, IsList))

\* C6: the destroys of a volume are in strictly descending order of name,
\* each is of a listed snapshot classified as expired, and once the volume
\* is done every listed snapshot classified as expired was destroyed.
C6_DestroysExpiredDescending ==
    /\ \A k \in 1..Len(vdevs) :
         LET d == PassDestroys(k)
         IN  \A i, j \in DOMAIN d : i < j => StrLess(d[j].arg, d[i].arg)
    /\ ListedPass >= 1 =>
         LET d == PassDestroys(ListedPass)
             vdev == PassCalls(ListedPass)[1].vdev
         IN  /\ \A i \in DOMAIN d : d[i].arg \in ExpiredOf(vdev, listing)
             /\ ListedPass <= Completed =>
                  { d[i].arg : i \in DOMAIN d } = ExpiredOf(vdev, listing)

\* C6, witness: a volume is done whose listing held two expired snapshots in
\* ascending order, and both were destroyed.
C6_Witness ==
    /\ ListedPass >= 1
    /\ ListedPass <= Completed
    /\ Len(PassDestroys(ListedPass)) = 2
    /\ Len(listing) >= 2
    /\ StrLess(listing[1], listing[2])

IsDescendant(n, p) == StartsWith(n, p \o << "/" >>)

Count(x, xs) == Cardinality({ i \in DOMAIN xs : xs[i] = x })

\* The successful listings of snapshots, one per turn of main's loop.
Turns ==
    LET IsList(c) == c.cmd = "list_snapshots" /\ c.ok
    IN  SelectSeq(calls, IsList)

\* C7: main handles the target volumes one after another in descending
\* order of name, whatever order compute_vdevs returned; so every call for a
\* descendant p/x comes before any call for p.
C7_VolumesDescending ==
    /\ \A i, j \in DOMAIN calls :
         (i < j /\ calls[i].pass >= 1) =>
            /\ calls[i].pass <= calls[j].pass
            /\ ~StrLess(calls[i].vdev, calls[j].vdev)
            /\ (calls[i].pass = calls[j].pass => calls[i].vdev = calls[j].vdev)
            /\ ~IsDescendant(calls[j].vdev, calls[i].vdev)
    /\ pc = "done" =>
         \A v \in Range(vdevs) :
            Count(v, vdevs) = Count(v, [i \in DOMAIN Turns |-> Turns[i].arg])

\* C7, witness: compute_vdevs returned a volume before its descendant, and
\* the run handled both.
C7_Witness ==
    /\ pc = "done"
    /\ \E i, j \in DOMAIN vdevs : i < j /\ IsDescendant(vdevs[j], vdevs[i])

\* The calls compute_vdevs made.
VdevQueries ==
    LET ByComputeVdevs(c) == c.by = "compute_vdevs" IN SelectSeq(calls, ByComputeVdevs)

\* vdev and its descendants, as zfs lists them.
DescendantsListed(vdev) ==
    LET Under(n) == n = vdev \/ IsDescendant(n, vdev) IN SelectSeq(volumes, Under)

RECURSIVE Flatten(_)
Flatten(ss) == IF ss = << >> THEN << >> ELSE Head(ss) \o Flatten(Tail(ss))

\* C10: compute_vdevs returns, for volumes given with recursive set, what
\* the descendants query of each found, one query per volume given, in the
\* order given; for volumes given without recursive, the volumes given, and
\* no query; for no volume given, what the listing of all volumes found.
C10_ComputeVdevs ==
    pc \in { "loop", "destroy", "done" } =>
        IF args.vdevs # << >> /\ args.recursive
        THEN /\ Len(VdevQueries) = Len(args.vdevs)
             /\ \A i \in DOMAIN args.vdevs :
                  /\ VdevQueries[i].cmd = "list_descendants"
                  /\ VdevQueries[i].arg = args.vdevs[i]
             /\ vdevs = Flatten([i \in DOMAIN args.vdevs |->
                                    DescendantsListed(args.vdevs[i])])
        ELSE IF args.vdevs # << >>
        THEN VdevQueries = << >> /\ vdevs = args.vdevs
        ELSE /\ Len(VdevQueries) = 1
             /\ VdevQueries[1].cmd = "list_vdevs"
             /\ vdevs = volumes

\* C10, witness: compute_vdevs returned for two volumes given with recursive
\* set, one of them with a descendant.
C10_Witness ==
    /\ pc = "loop"
    /\ args.recursive
    /\ Len(args.vdevs) = 2
    /\ Len(vdevs) = 3

FormatsBuilt == call.fn = "main_formats" /\ result # Pending

\* The composite formats the table of granularities stands for, by index.
CompositeFormats ==
    << << "%", "Y" >>,
       << "%", "Y", ".", "%", "m" >>,
       << "%", "Y", ".", "%", "m", ".", "%", "d" >>,
       << "%", "Y", ".", "%", "m", ".", "%", "d", ".", "%", "H" >> >>

\* C11: the composite date format main builds for granularity index i is the
\* tokens of indices 0..i, coarsest first, joined by "."; for index 0 it is
\* the year token alone, and it is a prefix of the format of index i + 1.
C11_CompositeDateFormat ==
    FormatsBuilt =>
        LET i == call.snapshot_period
            f == result.val.date_format
        IN  /\ f = CompositeFormats[i + 1]
            /\ i = 0 => f = << "%", "Y" >>
            /\ i + 1 < Len(SNAPSHOT_CATEGORIES) => StartsWith(DateFormat(i + 1), f)

\* C11, witness: the format of the finest granularity was built, of all four
\* tokens.
C11_Witness ==
    /\ FormatsBuilt
    /\ call.snapshot_period = Len(SNAPSHOT_CATEGORIES) - 1
    /\ Len(result.val.date_format) = 11

\* The dataset a snapshot name belongs to: what precedes the separator.
RECURSIVE DatasetOf(_)
DatasetOf(snapshot) ==
    IF snapshot = << >> \/ Head(snapshot) = SNAPSHOT_SEPARATOR THEN << >>
    ELSE << Head(snapshot) >> \o DatasetOf(Tail(snapshot))

\* C12: when the expired snapshots hold a snapshot of a child dataset and
\* one of its parent dataset, the destroy of the child's snapshot is issued
\* before the destroy of the parent's.
C12_ChildSnapshotFirst ==
    \A i, j \in DOMAIN calls :
        /\ calls[i].cmd = "destroy"
        /\ calls[j].cmd = "destroy"
        /\ IsDescendant(DatasetOf(calls[i].arg), DatasetOf(calls[j].arg))
        => i < j

\* The name of the snapshot the earlier run created on vdev.
EarlierName(vdev) ==
    snapshot_name(vdev, strftime(snapshot_name_format, timetuple(call.created)))

\* C13: a later run with the same granularity, prefix and lifetime destroys
\* the snapshot a run created at instant t only if t is strictly earlier
\* than the later run's cutoff.
C13_DestroyedOnlyPastLifetime ==
    \A i \in DOMAIN calls :
        /\ calls[i].cmd = "destroy"
        /\ calls[i].ok
        /\ calls[i].arg = EarlierName(calls[i].vdev)
        => Earlier(timetuple(call.created), snapshot_cutoff)

\* C14: the name a run creates from its now is classified not expired
\* against the run's own cutoff and format; when the run is over no snapshot
\* of the volume is left that the classifier calls expired; and no run
\* destroys a snapshot and then creates one of the same name.
C14_OwnNameNotExpired ==
    /\ snapshot_cutoff # << >> =>
         \A v \in Range(volumes) :
            ~is_destroyable_snapshot(v, snapshot_cutoff, snapshot_name_format,
                                     CreatedName(v))
    /\ pc = "done" =>
         \A v \in Range(vdevs), s \in snapshots :
            ~is_destroyable_snapshot(v, snapshot_cutoff, snapshot_name_format, s)
    /\ \A i, j \in DOMAIN calls :
         (i < j /\ calls[i].cmd = "destroy" /\ calls[j].cmd = "create")
            => calls[i].arg # calls[j].arg

====
